---------------------------- MODULE Spec2Model ----------------------------
(***************************************************************************)
(* Model of app.py: the smart-outlet energy monitor.                      *)
(*                                                                         *)
(* Units.  Instants are whole seconds (Int); a calendar date is the day    *)
(* index  secs \div Day  (strftime('%Y-%m-%d') orders like the day index   *)
(* for four-digit years).  Power is in watts.  Energy is an integer count  *)
(* of micro-kWh (round(kwh, 6)), cost an integer count of 1e-4 currency    *)
(* units (round(cost, 4)).  Python's round() is modelled as exact          *)
(* round-half-to-even on the rational value.                               *)
(***************************************************************************)
EXTENDS Integers, Sequences, FiniteSets, TLC

VARIABLES
    now,          \* datetime.now(), whole seconds
    ticks,        \* number of clock advances so far (bounded)
    device,       \* module-level `device`: TRUE, or FALSE for None
    dataFile,     \* contents of data.json
    settingsFile, \* contents of settings.json
    file_lock,    \* owner of file_lock, or "free"
    ppc,          \* poll thread: position in poll_device / save_energy_data
    pentry,       \* poll thread: `entry` built by save_energy_data
    pnew,         \* poll thread: `existing_data` after append and filter
    lastAppend,   \* history: outcome of the latest save_energy_data call
    hpc,          \* handler threads: position in the route function
    hreq,         \* handler threads: the request being served
    hdata,        \* handler threads: `all_data` as read from data.json
    hres,         \* handler threads: the response about to be sent
    setLog,       \* history: the latest successful set_rate
    samples,      \* integration harness: argument of compute_kwh_from_sorted_samples
    kwh,          \* integration harness: latest return value (NotComputed if none)
    kwh0          \* integration harness: return value for the first ordering

vars == << now, ticks, device, dataFile, settingsFile, file_lock,
           ppc, pentry, pnew, lastAppend, hpc, hreq, hdata, hres, setLog,
           samples, kwh, kwh0 >>

sysVars == << now, ticks, device, dataFile, settingsFile, file_lock,
              ppc, pentry, pnew, lastAppend, hpc, hreq, hdata, hres, setLog >>

intVars == << samples, kwh, kwh0 >>

-----------------------------------------------------------------------------
(* Program constants *)

Hour == 3600
Day == 24 * Hour
RetentionDays == 30
Retention == RetentionDays * Day
PollInterval == 8
SingleSampleSecs == 60
DefaultRate == 10
DefaultDaysBack == 30

(* Bounds of the model *)

MaxLen == 3
MaxTicks == 2

-----------------------------------------------------------------------------
(* Time helpers *)

\* A timestamp string: its serialization form and the instant it denotes.
\* "T" is datetime.isoformat(), "sp" the same with a space separator, "bad"
\* a string no tier of parse_time accepts.
Timestamp(form, secs) == [form |-> form, secs |-> secs]

\* parse_time: fromisoformat, then with " " replaced by "T", then truncated at
\* the first "."; raises ValueError (ok = FALSE) when all three fail.
parse_time(ts) ==
    CASE ts.form = "T"  -> [ok |-> TRUE, t |-> ts.secs]
      [] ts.form = "sp" -> [ok |-> TRUE, t |-> ts.secs]
      [] OTHER          -> [ok |-> FALSE, t |-> 0]

\* parse_time(ts).strftime('%Y-%m-%d'), as a day index
DateOf(t) == t \div Day

\* Python round(): nearest multiple, ties to even; n >= 0, d > 0
RoundHalfEven(n, d) ==
    LET q == n \div d
        r == n % d
    IN  IF 2 * r < d THEN q
        ELSE IF 2 * r > d THEN q + 1
        ELSE IF q % 2 = 0 THEN q ELSE q + 1

-----------------------------------------------------------------------------
(* Energy integration helpers: compute_kwh_from_sorted_samples *)

RECURSIVE ParsePoints(_)
\* lines 162-169: the (t, p) pairs of the samples whose timestamp parses
ParsePoints(ss) ==
    IF ss = << >> THEN << >>
    ELSE LET s == Head(ss)
             r == parse_time(s.timestamp)
         IN  IF r.ok THEN << [t |-> r.t, p |-> s.power_w] >> \o ParsePoints(Tail(ss))
             ELSE ParsePoints(Tail(ss))

RECURSIVE InsertByTime(_, _)
\* insert x behind every element whose time is <= x.t (stable)
InsertByTime(sorted, x) ==
    IF sorted = << >> THEN << x >>
    ELSE IF Head(sorted).t <= x.t
         THEN << Head(sorted) >> \o InsertByTime(Tail(sorted), x)
         ELSE << x >> \o sorted

RECURSIVE SortByTimeFrom(_, _)
SortByTimeFrom(acc, rest) ==
    IF rest = << >> THEN acc
    ELSE SortByTimeFrom(InsertByTime(acc, Head(rest)), Tail(rest))

\* mutation of SortByTime: the sort is left out
SortByTime_NoSort(pts) == pts

\* line 173: pts.sort(key=lambda x: x[0]), a stable sort on the time only
SortByTime(pts) == SortByTimeFrom(<< >>, pts)

RECURSIVE TrapezoidSum2(_, _)
\* lines 182-190: twice the trapezoid sum in W*s over pts[i], pts[i+1], i >= i0
TrapezoidSum2(pts, i) ==
    IF i >= Len(pts) THEN 0
    ELSE LET delta == pts[i + 1].t - pts[i].t
         IN  (IF delta < 0 THEN 0 ELSE (pts[i].p + pts[i + 1].p) * delta)
             + TrapezoidSum2(pts, i + 1)

RECURSIVE PositiveDeltas(_, _)
\* lines 193-197: the positive gaps, in sample order
PositiveDeltas(pts, i) ==
    IF i >= Len(pts) THEN << >>
    ELSE LET d == pts[i + 1].t - pts[i].t
         IN  (IF d > 0 THEN << d >> ELSE << >>) \o PositiveDeltas(pts, i + 1)

RECURSIVE InsertNum(_, _)
InsertNum(sorted, x) ==
    IF sorted = << >> THEN << x >>
    ELSE IF Head(sorted) <= x
         THEN << Head(sorted) >> \o InsertNum(Tail(sorted), x)
         ELSE << x >> \o sorted

RECURSIVE SortNums(_, _)
SortNums(acc, rest) ==
    IF rest = << >> THEN acc
    ELSE SortNums(InsertNum(acc, Head(rest)), Tail(rest))

\* mutation of MedianDelta: the lower of the two middle gaps
MedianDelta_Lower(deltas) ==
    IF deltas = << >> THEN SingleSampleSecs
    ELSE SortNums(<< >>, deltas)[((Len(deltas) - 1) \div 2) + 1]

\* line 198: sorted(deltas)[len(deltas)//2] if deltas else 60.0
MedianDelta(deltas) ==
    IF deltas = << >> THEN SingleSampleSecs
    ELSE SortNums(<< >>, deltas)[(Len(deltas) \div 2) + 1]

\* lines 203-204: round(W*s / 3600 / 1000, 6) in micro-kWh, from twice the W*s
ToMicroKwh(ws2) == RoundHalfEven(ws2 * 5, 36)

\* lines 152-204; the result is in micro-kWh
compute_kwh_from_sorted_samples(ss) ==
    IF ss = << >> THEN 0
    ELSE LET parsed == ParsePoints(ss)
         IN  IF parsed = << >> THEN 0
             ELSE LET pts == SortByTime(parsed)
                  IN  IF Len(pts) = 1
                      THEN ToMicroKwh(2 * pts[1].p * SingleSampleSecs)
                      ELSE ToMicroKwh(TrapezoidSum2(pts, 1)
                               + 2 * pts[Len(pts)].p
                                   * MedianDelta(PositiveDeltas(pts, 1)))


-----------------------------------------------------------------------------
(* Integration harness: compute_kwh_from_sorted_samples applied to bounded   *)
(* inputs, and re-applied to reorderings of the same input.                  *)

NotComputed == 0 - 1

InTimes == {0, 10, 40, Hour}
InPowers == {1000, 2000}

InSamples ==
    { [timestamp |-> Timestamp("T", t), power_w |-> p] : t \in InTimes, p \in InPowers }
    \cup { [timestamp |-> Timestamp("sp", 20), power_w |-> 1000],
           [timestamp |-> Timestamp("bad", 0), power_w |-> 1000] }

SeqsUpTo(S, n) == UNION { [1..k -> S] : k \in 0..n }

Swap(s, i) ==
    [k \in 1..Len(s) |-> IF k = i THEN s[i + 1] ELSE IF k = i + 1 THEN s[i] ELSE s[k]]

\* the caller passes a list and keeps the returned total
IntCompute ==
    /\ kwh = NotComputed
    /\ kwh' = compute_kwh_from_sorted_samples(samples)
    /\ kwh0' = IF kwh0.kwh = NotComputed
               THEN [samples |-> samples, kwh |-> kwh']
               ELSE kwh0
    /\ UNCHANGED << samples >>
    /\ UNCHANGED sysVars

\* the caller reorders the list (two neighbours exchanged)
IntReorder ==
    /\ kwh # NotComputed
    /\ \E i \in 1..(Len(samples) - 1) :
          /\ samples[i] # samples[i + 1]
          /\ samples' = Swap(samples, i)
    /\ kwh' = NotComputed
    /\ UNCHANGED << kwh0 >>
    /\ UNCHANGED sysVars


-----------------------------------------------------------------------------
(* Persisted state.  Of an entry's 'data' only power_w is kept: the other   *)
(* fields (current_ma, voltage_v, total_kwh, is_on) are copied through and  *)
(* take no part in a decision.                                              *)

Handlers == {"h1", "h2"}

Entry(ts, p) == [timestamp |-> ts, power_w |-> p]
NoEntry == Entry(Timestamp("none", 0), 0)

\* data.json holding a JSON list / cut off by open(.., 'w') and never completed
DataOK(entries) == [valid |-> TRUE, entries |-> entries]
DataTruncated == [valid |-> FALSE, entries |-> << >>]

\* settings.json likewise
SettingsOK(rate) == [valid |-> TRUE, cost_per_kwh |-> rate]
SettingsTruncated == [valid |-> FALSE, cost_per_kwh |-> 0]

\* raw DPS '19' readings (deciwatts) the device reports
DpsPowers == {10000, 20000}

\* data.json as found at start-up: created empty by init_files, or left by an
\* earlier run (a sample of the day before in the space-separated form, alone
\* or followed by a sample whose timestamp no longer parses)
InitStores ==
    { << >>,
      << Entry(Timestamp("sp", 0 - Day), 1000) >>,
      << Entry(Timestamp("sp", 0 - Day), 1000), Entry(Timestamp("bad", 0), 1000) >> }

AllParse(entries) ==
    \A i \in 1..Len(entries) : parse_time(entries[i].timestamp).ok

HasMalformed(entries) == ~AllParse(entries)

\* mutation of KeepRecent: the filter is left out
KeepRecent_All(entries, cutoff) == entries

\* mutation of KeepRecent: >= in place of >
KeepRecent_Inclusive(entries, cutoff) ==
    LET Keep(e) == parse_time(e.timestamp).t >= cutoff
    IN  SelectSeq(entries, Keep)

\* lines 107-110: [e for e in existing_data if parse_time(e['timestamp']) > cutoff]
\* (applied only when every timestamp parses; otherwise the comprehension raises)
KeepRecent(entries, cutoff) ==
    LET Keep(e) == parse_time(e.timestamp).t > cutoff
    IN  SelectSeq(entries, Keep)

\* mutation of read_settings: the stored record is ignored
read_settings_Default(file) == DefaultRate

\* lines 70-76: read_settings and the .get('cost_per_kwh', 10.0) that follows
\* every call; any exception yields the default record
read_settings(file) ==
    IF file.valid THEN file.cost_per_kwh ELSE DefaultRate

-----------------------------------------------------------------------------
(* The poll thread: poll_device and save_energy_data *)

\* history of save_energy_data: the latest call (status, cause of failure, the
\* entry, data.json before the call, the cutoff used) and whether a call has
\* succeeded, with the cutoff of the latest one that did
NoAppend == [status |-> "none", cause |-> "", entry |-> NoEntry,
             before |-> DataOK(<< >>), cutoff |-> 0,
             okSome |-> FALSE, okCutoff |-> 0]

AppendFailed(cause) == [lastAppend EXCEPT !.status = "failed", !.cause = cause]

\* line 123 with device = None: nothing to poll
PollNoDevice ==
    /\ ppc = "poll"
    /\ ~device
    /\ ppc' = "sleep"
    /\ UNCHANGED << now, ticks, device, dataFile, settingsFile,
                    file_lock, pentry, pnew, lastAppend, hpc, hreq, hdata, hres, setLog >>
    /\ UNCHANGED intVars

\* lines 124, 126-127: device.status() raises; poll_device logs and goes on
PollStatusError ==
    /\ ppc = "poll"
    /\ device
    /\ ppc' = "sleep"
    /\ UNCHANGED << now, ticks, device, dataFile, settingsFile,
                    file_lock, pentry, pnew, lastAppend, hpc, hreq, hdata, hres, setLog >>
    /\ UNCHANGED intVars

\* lines 124-125, 88-97: a status arrives; save_energy_data builds the entry
\* with timestamp datetime.now() and power_w = dps['19'] / 10
PollStatus ==
    /\ ppc = "poll"
    /\ device
    /\ \E raw \in DpsPowers :
          /\ pentry' = Entry(Timestamp("T", now), raw \div 10)
          /\ lastAppend' = [lastAppend EXCEPT
                               !.status = "running", !.cause = "", !.entry = pentry',
                               !.before = dataFile, !.cutoff = 0]
    /\ ppc' = "sv_lock"
    /\ UNCHANGED << now, ticks, device, dataFile, settingsFile,
                    file_lock, pnew, hpc, hreq, hdata, hres, setLog >>
    /\ UNCHANGED intVars

\* line 99: with file_lock
SaveAcquire ==
    /\ ppc = "sv_lock"
    /\ file_lock = "free"
    /\ file_lock' = "poll"
    /\ ppc' = "sv_read"
    /\ UNCHANGED << now, ticks, device, dataFile, settingsFile,
                    pentry, pnew, lastAppend, hpc, hreq, hdata, hres, setLog >>
    /\ UNCHANGED intVars

\* lines 100-110: json.load, append, 30-day filter.  json.load raises on a
\* truncated file and parse_time raises on a malformed timestamp; either way
\* the exception leaves the with block (releasing file_lock) and is caught at
\* line 114.
SaveRead ==
    /\ ppc = "sv_read"
    /\ IF ~dataFile.valid
       THEN /\ lastAppend' = AppendFailed("read")
            /\ file_lock' = "free"
            /\ ppc' = "sleep"
            /\ UNCHANGED pnew
       ELSE LET existing_data == Append(dataFile.entries, pentry)
                cutoff == now - Retention
            IN  IF ~AllParse(existing_data)
                THEN /\ lastAppend' = AppendFailed("parse")
                     /\ file_lock' = "free"
                     /\ ppc' = "sleep"
                     /\ UNCHANGED pnew
                ELSE /\ pnew' = KeepRecent(existing_data, cutoff)
                     /\ lastAppend' = [lastAppend EXCEPT !.cutoff = cutoff]
                     /\ ppc' = "sv_open"
                     /\ UNCHANGED file_lock
    /\ UNCHANGED << now, ticks, device, dataFile, settingsFile,
                    pentry, hpc, hreq, hdata, hres, setLog >>
    /\ UNCHANGED intVars

\* line 112: open(JSON_FILE, 'w') truncates the file
SaveOpen ==
    /\ ppc = "sv_open"
    /\ dataFile' = DataTruncated
    /\ ppc' = "sv_dump"
    /\ UNCHANGED << now, ticks, device, settingsFile, file_lock,
                    pentry, pnew, lastAppend, hpc, hreq, hdata, hres, setLog >>
    /\ UNCHANGED intVars

\* line 112 raising (storage not writable): nothing is written
SaveOpenFails ==
    /\ ppc = "sv_open"
    /\ lastAppend' = AppendFailed("open")
    /\ file_lock' = "free"
    /\ ppc' = "sleep"
    /\ pnew' = << >>
    /\ UNCHANGED << now, ticks, device, dataFile, settingsFile,
                    pentry, hpc, hreq, hdata, hres, setLog >>
    /\ UNCHANGED intVars

\* line 113 and the end of both with blocks: the list is written, the file
\* closed, file_lock released
SaveDump ==
    /\ ppc = "sv_dump"
    /\ dataFile' = DataOK(pnew)
    /\ lastAppend' = [lastAppend EXCEPT !.status = "ok", !.okSome = TRUE,
                                        !.okCutoff = lastAppend.cutoff]
    /\ file_lock' = "free"
    /\ ppc' = "sleep"
    /\ pnew' = << >>
    /\ UNCHANGED << now, ticks, device, settingsFile,
                    pentry, hpc, hreq, hdata, hres, setLog >>
    /\ UNCHANGED intVars

\* line 113 raising (storage full): the file stays as the open left it
SaveDumpFails ==
    /\ ppc = "sv_dump"
    /\ lastAppend' = AppendFailed("dump")
    /\ file_lock' = "free"
    /\ ppc' = "sleep"
    /\ pnew' = << >>
    /\ UNCHANGED << now, ticks, device, dataFile, settingsFile,
                    pentry, hpc, hreq, hdata, hres, setLog >>
    /\ UNCHANGED intVars

\* line 128: time.sleep(8)
Sleep ==
    /\ ppc = "sleep"
    /\ ticks < MaxTicks
    /\ now' = now + PollInterval
    /\ ticks' = ticks + 1
    /\ ppc' = "poll"
    /\ UNCHANGED << device, dataFile, settingsFile, file_lock,
                    pentry, pnew, lastAppend, hpc, hreq, hdata, hres, setLog >>
    /\ UNCHANGED intVars

\* the wall clock moves on while the threads wait (a day, the retention span)
TimePasses ==
    /\ ticks < MaxTicks
    /\ \E d \in {Day, Retention} : now' = now + d
    /\ ticks' = ticks + 1
    /\ UNCHANGED << device, dataFile, settingsFile, file_lock,
                    ppc, pentry, pnew, lastAppend, hpc, hreq, hdata, hres, setLog >>
    /\ UNCHANGED intVars


-----------------------------------------------------------------------------
(* Historical & analytics helpers *)

Min2(a, b) == IF a <= b THEN a ELSE b
Max2(a, b) == IF a >= b THEN a ELSE b
MaxOf(S) == CHOOSE m \in S : \A x \in S : x <= m
MinOf(S) == CHOOSE m \in S : \A x \in S : m <= x

RECURSIVE SortedDesc(_)
\* sorted(keys, reverse=True)
SortedDesc(S) ==
    IF S = {} THEN << >>
    ELSE LET m == MaxOf(S) IN << m >> \o SortedDesc(S \ {m})

RECURSIVE SortedAsc(_)
\* sorted(keys)
SortedAsc(S) ==
    IF S = {} THEN << >>
    ELSE LET m == MinOf(S) IN << m >> \o SortedAsc(S \ {m})

RECURSIVE SumPowers(_)
SumPowers(ss) == IF ss = << >> THEN 0 ELSE Head(ss).power_w + SumPowers(Tail(ss))

\* a Python slice seq[:n]
SliceTo(seq, n) ==
    IF n >= 0 THEN SubSeq(seq, 1, Min2(n, Len(seq)))
    ELSE SubSeq(seq, 1, Max2(0, Len(seq) + n))

\* lines 275-281: the keys of by_date; entries whose timestamp fails to parse
\* are skipped
DatesOf(all_data) ==
    { DateOf(parse_time(all_data[i].timestamp).t) :
        i \in { j \in 1..Len(all_data) : parse_time(all_data[j].timestamp).ok } }

\* lines 275-281: by_date[d], in file order
SamplesOn(all_data, d) ==
    LET On(e) == /\ parse_time(e.timestamp).ok
                 /\ DateOf(parse_time(e.timestamp).t) = d
    IN  SelectSeq(all_data, On)

\* mutation of SelectDates: reverse=True forgotten
SelectDates_Oldest(dates, days_back) == SliceTo(SortedAsc(dates), days_back)

\* line 283: sorted(by_date.keys(), reverse=True)[:days_back]
SelectDates(dates, days_back) == SliceTo(SortedDesc(dates), days_back)

\* lines 295, 443: round(kwh * rate, 4), in 1e-4 currency units
CostOf(microKwh, rate) == RoundHalfEven(microKwh * rate, 100)

\* lines 289-303: one summary item (avg_w in hundredths of a watt)
SummaryItem(all_data, d, rate) ==
    LET ss == SamplesOn(all_data, d)
        total == compute_kwh_from_sorted_samples(ss)
        powers == { ss[i].power_w : i \in 1..Len(ss) }
    IN  [date      |-> d,
         total_kwh |-> total,
         cost      |-> CostOf(total, rate),
         avg_w     |-> RoundHalfEven(SumPowers(ss) * 100, Len(ss)),
         max_w     |-> MaxOf(powers),
         min_w     |-> MinOf(powers)]

\* lines 274-306, after the file is read: the summary list, ascending by date
build_daily_summary(all_data, days_back, rate) ==
    LET chosen == SelectDates(DatesOf(all_data), days_back)
        dates == SortedAsc({ chosen[i] : i \in 1..Len(chosen) })
    IN  [i \in 1..Len(dates) |-> SummaryItem(all_data, dates[i], rate)]

-----------------------------------------------------------------------------
(* Flask routes, each served by a handler thread.  A handler is "idle",    *)
(* inside a route, or "done": the response is built and about to be sent.  *)

NoRate == 0 - 1
NoDate == 0 - 1000

\* all_data as a handler read it; at (the time of the read) and since (the
\* cutoff of the latest successful save_energy_data by then) are history
NoData == [valid |-> TRUE, entries |-> << >>, at |-> 0,
           since |-> [some |-> FALSE, cutoff |-> 0]]

\* expect, disturbed and seen are history, kept for the queries:
\*   expect     the rate of the latest successful set_rate when the query
\*              started, if no other set_rate had begun since; else NoRate
\*   disturbed  a set_rate passed validation before the query's rate lookup
\*   seen       the rates settings.json has stood for since the query started
NoReq == [op |-> "none", arg |-> 0, numeric |-> TRUE,
          expect |-> NoRate, disturbed |-> FALSE, seen |-> {}]

\* request arguments the clients send
DateArgs == {NoDate, 0 - 1, 0}
DaysArgs == {1, 2, DefaultDaysBack}
RatePayloads ==
    { [numeric |-> TRUE, rate |-> r] : r \in {0 - 1, 0, 12} }
    \cup { [numeric |-> FALSE, rate |-> 0] }

Resp(code) ==
    [code |-> code, rate |-> NoRate, total_kwh |-> 0, cost |-> 0,
     timestamps |-> << >>, summary |-> << >>, power |-> 0]

InSetRate(h) == hpc[h] \notin {"idle", "done"} /\ hreq[h].op = "set_rate"
InQuery(h) == hpc[h] \notin {"idle", "done"} /\ hreq[h].op # "set_rate"

ExpectedRate ==
    IF setLog.lastOk # NoRate /\ ~setLog.dirty /\ ~(\E g \in Handlers : InSetRate(g))
    THEN setLog.lastOk ELSE NoRate

Query(op, arg) ==
    [op |-> op, arg |-> arg, numeric |-> TRUE, expect |-> ExpectedRate,
     disturbed |-> FALSE, seen |-> {read_settings(settingsFile)}]

\* history: the queries under way learn that settings.json now stands for r
NoteRate(h, r) ==
    [g \in Handlers |->
        IF g # h /\ InQuery(g) THEN [hreq[g] EXCEPT !.seen = @ \cup {r}] ELSE hreq[g]]

Finish(h, resp) ==
    /\ hres' = [hres EXCEPT ![h] = resp]
    /\ hpc' = [hpc EXCEPT ![h] = "done"]

\* the response is sent; the thread is free for the next request
Return(h) ==
    /\ hpc[h] = "done"
    /\ hpc' = [hpc EXCEPT ![h] = "idle"]
    /\ hreq' = [hreq EXCEPT ![h] = NoReq]
    /\ hdata' = [hdata EXCEPT ![h] = NoData]
    /\ hres' = [hres EXCEPT ![h] = Resp(0)]
    /\ UNCHANGED << now, ticks, device, dataFile, settingsFile, file_lock,
                    ppc, pentry, pnew, lastAppend, setLog >>
    /\ UNCHANGED intVars

\* /live_data, lines 357-361
StartLiveData(h) ==
    /\ hpc[h] = "idle"
    /\ hreq' = [hreq EXCEPT ![h] = Query("live_data", 0)]
    /\ hpc' = [hpc EXCEPT ![h] = "data_lock"]
    /\ UNCHANGED << now, ticks, device, dataFile, settingsFile, file_lock,
                    ppc, pentry, pnew, lastAppend, hdata, hres, setLog >>
    /\ UNCHANGED intVars

\* /historical_data, lines 411-414: a missing date is answered 400
StartHistoricalData(h) ==
    /\ hpc[h] = "idle"
    /\ \E date \in DateArgs :
          /\ hreq' = [hreq EXCEPT ![h] = Query("historical_data", date)]
          /\ IF date = NoDate
             THEN Finish(h, Resp(400))
             ELSE /\ hpc' = [hpc EXCEPT ![h] = "data_lock"]
                  /\ UNCHANGED hres
    /\ UNCHANGED << now, ticks, device, dataFile, settingsFile, file_lock,
                    ppc, pentry, pnew, lastAppend, hdata, setLog >>
    /\ UNCHANGED intVars

\* /daily_summary, lines 455-461
StartDailySummary(h) ==
    /\ hpc[h] = "idle"
    /\ \E days \in DaysArgs :
          hreq' = [hreq EXCEPT ![h] = Query("daily_summary", days)]
    /\ hpc' = [hpc EXCEPT ![h] = "data_lock"]
    /\ UNCHANGED << now, ticks, device, dataFile, settingsFile, file_lock,
                    ppc, pentry, pnew, lastAppend, hdata, hres, setLog >>
    /\ UNCHANGED intVars

\* mutation of RateAccepted: the sign check is dropped
RateAccepted_NoSignCheck(payload) == payload.numeric

\* lines 466-472: float(payload.get('rate')) succeeds and rate >= 0
RateAccepted(payload) == payload.numeric /\ ~(payload.rate < 0)

\* /set_rate, lines 465-474: validation; a rejected payload is answered 400
\* before settings.json is touched
StartSetRate(h) ==
    /\ hpc[h] = "idle"
    /\ \E payload \in RatePayloads :
          LET req == [NoReq EXCEPT !.op = "set_rate", !.arg = payload.rate,
                                   !.numeric = payload.numeric]
          IN  IF RateAccepted(payload)
              THEN /\ hreq' = [g \in Handlers |->
                                 IF g = h THEN req
                                 ELSE IF InQuery(g)
                                      THEN [hreq[g] EXCEPT !.disturbed = TRUE]
                                      ELSE hreq[g]]
                   /\ hpc' = [hpc EXCEPT ![h] = "set_lock"]
                   /\ setLog' = [setLog EXCEPT !.dirty = TRUE]
                   /\ UNCHANGED hres
              ELSE /\ hreq' = [hreq EXCEPT ![h] = req]
                   /\ Finish(h, Resp(400))
                   /\ UNCHANGED setLog
    /\ UNCHANGED << now, ticks, device, dataFile, settingsFile, file_lock,
                    ppc, pentry, pnew, lastAppend, hdata >>
    /\ UNCHANGED intVars

\* with file_lock (lines 359, 417, 267), entered by a handler about to read
\* data.json
DataAcquire(h) ==
    /\ hpc[h] = "data_lock"
    /\ file_lock = "free"
    /\ file_lock' = h
    /\ hpc' = [hpc EXCEPT ![h] = "data_read"]
    /\ UNCHANGED << now, ticks, device, dataFile, settingsFile,
                    ppc, pentry, pnew, lastAppend, hreq, hdata, hres, setLog >>
    /\ UNCHANGED intVars

\* lines 423-427: the entries of the requested date (applied only when every
\* timestamp parses: the comprehension has no try, so one malformed timestamp
\* anywhere in the file raises ValueError)
FilterDate(all_data, date) ==
    LET On(e) == DateOf(parse_time(e.timestamp).t) = date
    IN  SelectSeq(all_data, On)

\* json.load(f) inside the lock, the lock's release, and what the route does
\* with all_data up to its next use of shared state:
\*   live_data        lines 360-366: 500 on a read error or an empty list
\*   historical_data  lines 418-430: 500 on a read error (or the uncaught
\*                    ValueError), 404 when no entry has the date
\*   daily_summary    lines 268-272: a read error yields the empty summary
DataRead(h) ==
    /\ hpc[h] = "data_read"
    /\ file_lock' = "free"
    /\ hdata' = [hdata EXCEPT ![h] =
                   [valid |-> dataFile.valid, entries |-> dataFile.entries, at |-> now,
                    since |-> [some |-> lastAppend.okSome,
                               cutoff |-> lastAppend.okCutoff]]]
    /\ LET op == hreq[h].op
           all_data == dataFile.entries
       IN  CASE ~dataFile.valid /\ op = "daily_summary" ->
                    Finish(h, Resp(200))
             [] ~dataFile.valid /\ op # "daily_summary" ->
                    Finish(h, Resp(500))
             [] dataFile.valid /\ op = "live_data" /\ all_data = << >> ->
                    Finish(h, Resp(500))
             [] dataFile.valid /\ op = "historical_data" /\ ~AllParse(all_data) ->
                    Finish(h, Resp(500))
             [] dataFile.valid /\ op = "historical_data" /\ AllParse(all_data)
                  /\ FilterDate(all_data, hreq[h].arg) = << >> ->
                    Finish(h, Resp(404))
             [] OTHER ->
                    /\ hpc' = [hpc EXCEPT ![h] = "set_lock"]
                    /\ UNCHANGED hres
    /\ UNCHANGED << now, ticks, device, dataFile, settingsFile,
                    ppc, pentry, pnew, lastAppend, hreq, setLog >>
    /\ UNCHANGED intVars

\* read_settings, line 72: with file_lock
SettingsAcquire(h) ==
    /\ hpc[h] = "set_lock"
    /\ file_lock = "free"
    /\ file_lock' = h
    /\ hpc' = [hpc EXCEPT ![h] = "set_read"]
    /\ UNCHANGED << now, ticks, device, dataFile, settingsFile,
                    ppc, pentry, pnew, lastAppend, hreq, hdata, hres, setLog >>
    /\ UNCHANGED intVars

\* read_settings, lines 73-76, the lock's release, and the rest of the route:
\*   live_data        lines 368-385
\*   historical_data  lines 432-452
\*   daily_summary    lines 283-306
\*   set_rate         lines 474-475, on to write_settings
SettingsRead(h) ==
    /\ hpc[h] = "set_read"
    /\ file_lock' = "free"
    /\ LET op == hreq[h].op
           rate == read_settings(settingsFile)
           all_data == hdata[h].entries
       IN  CASE op = "set_rate" ->
                    /\ hpc' = [hpc EXCEPT ![h] = "wr_lock"]
                    /\ UNCHANGED hres
             [] op = "live_data" ->
                    Finish(h, [Resp(200) EXCEPT
                                 !.rate = rate,
                                 !.power = all_data[Len(all_data)].power_w])
             [] op = "historical_data" ->
                    LET filtered == FilterDate(all_data, hreq[h].arg)
                        total == compute_kwh_from_sorted_samples(filtered)
                    IN  Finish(h, [Resp(200) EXCEPT
                                     !.rate = rate,
                                     !.timestamps =
                                         [i \in 1..Len(filtered) |-> filtered[i].timestamp],
                                     !.total_kwh = total,
                                     !.cost = CostOf(total, rate)])
             [] op = "daily_summary" ->
                    Finish(h, [Resp(200) EXCEPT
                                 !.rate = rate,
                                 !.summary =
                                     build_daily_summary(all_data, hreq[h].arg, rate)])
    /\ UNCHANGED << now, ticks, device, dataFile, settingsFile,
                    ppc, pentry, pnew, lastAppend, hreq, hdata, setLog >>
    /\ UNCHANGED intVars

\* write_settings, line 79: with file_lock
WriteAcquire(h) ==
    /\ hpc[h] = "wr_lock"
    /\ file_lock = "free"
    /\ file_lock' = h
    /\ hpc' = [hpc EXCEPT ![h] = "wr_open"]
    /\ UNCHANGED << now, ticks, device, dataFile, settingsFile,
                    ppc, pentry, pnew, lastAppend, hreq, hdata, hres, setLog >>
    /\ UNCHANGED intVars

\* write_settings, line 80: open(SETTINGS_FILE, 'w') truncates the file
WriteOpen(h) ==
    /\ hpc[h] = "wr_open"
    /\ settingsFile' = SettingsTruncated
    /\ hreq' = NoteRate(h, read_settings(SettingsTruncated))
    /\ hpc' = [hpc EXCEPT ![h] = "wr_dump"]
    /\ UNCHANGED << now, ticks, device, dataFile, file_lock,
                    ppc, pentry, pnew, lastAppend, hdata, hres, setLog >>
    /\ UNCHANGED intVars

\* write_settings, line 81, the lock's release and line 477
WriteDump(h) ==
    /\ hpc[h] = "wr_dump"
    /\ settingsFile' = SettingsOK(hreq[h].arg)
    /\ hreq' = NoteRate(h, hreq[h].arg)
    /\ file_lock' = "free"
    /\ setLog' = [lastOk |-> hreq[h].arg,
                  dirty  |-> \E g \in Handlers \ {h} : InSetRate(g)]
    /\ Finish(h, [Resp(200) EXCEPT !.rate = hreq[h].arg])
    /\ UNCHANGED << now, ticks, device, dataFile,
                    ppc, pentry, pnew, lastAppend, hdata >>
    /\ UNCHANGED intVars

-----------------------------------------------------------------------------
(* Specifications *)

\* the system after import: init_files has run, the poll thread is started
SysInit ==
    /\ now = 0
    /\ ticks = 0
    /\ device \in BOOLEAN
    /\ dataFile \in { DataOK(st) : st \in InitStores }
    /\ settingsFile = SettingsOK(DefaultRate)
    /\ file_lock = "free"
    /\ ppc = "poll"
    /\ pentry = NoEntry
    /\ pnew = << >>
    /\ lastAppend = NoAppend
    /\ hpc = [h \in Handlers |-> "idle"]
    /\ hreq = [h \in Handlers |-> NoReq]
    /\ hdata = [h \in Handlers |-> NoData]
    /\ hres = [h \in Handlers |-> Resp(0)]
    /\ setLog = [lastOk |-> NoRate, dirty |-> FALSE]

IntIdle ==
    /\ samples = << >>
    /\ kwh = NotComputed
    /\ kwh0 = [samples |-> << >>, kwh |-> NotComputed]

PollThread ==
    \/ PollNoDevice
    \/ PollStatusError
    \/ PollStatus
    \/ SaveAcquire
    \/ SaveRead
    \/ SaveOpen
    \/ SaveOpenFails
    \/ SaveDump
    \/ SaveDumpFails
    \/ Sleep

QueryRoutes(h) ==
    \/ StartLiveData(h)
    \/ StartHistoricalData(h)
    \/ StartDailySummary(h)
    \/ DataAcquire(h)
    \/ DataRead(h)
    \/ SettingsAcquire(h)
    \/ SettingsRead(h)
    \/ Return(h)

SetRateRoute(h) ==
    \/ StartSetRate(h)
    \/ SettingsAcquire(h)
    \/ SettingsRead(h)
    \/ WriteAcquire(h)
    \/ WriteOpen(h)
    \/ WriteDump(h)
    \/ Return(h)

\* The store side: the poll thread, the clock, and one handler thread serving
\* the read-only routes.
Init == SysInit /\ IntIdle

Next ==
    \/ PollThread
    \/ TimePasses
    \/ QueryRoutes("h1")

Spec == Init /\ [][Next]_vars

\* The rate side: the poll thread saving one status to an initially empty
\* log, one handler thread serving every route and a second one serving
\* /set_rate; no write to storage fails.
InitRate ==
    /\ SysInit
    /\ device
    /\ dataFile = DataOK(<< >>)
    /\ IntIdle

NextRate ==
    \/ PollStatus
    \/ SaveAcquire
    \/ SaveRead
    \/ SaveOpen
    \/ SaveDump
    \/ QueryRoutes("h1")
    \/ SetRateRoute("h1")
    \/ SetRateRoute("h2")

SpecRate == InitRate /\ [][NextRate]_vars

\* the integration harness alone, the rest of the system at rest
InitIntegrate ==
    /\ SysInit
    /\ ~device
    /\ dataFile = DataOK(<< >>)
    /\ samples \in SeqsUpTo(InSamples, MaxLen)
    /\ kwh = NotComputed
    /\ kwh0 = [samples |-> << >>, kwh |-> NotComputed]

NextIntegrate == IntCompute \/ IntReorder

SpecIntegrate == InitIntegrate /\ [][NextIntegrate]_vars


-----------------------------------------------------------------------------
(* Properties of compute_kwh_from_sorted_samples (under SpecIntegrate) *)

Computed == kwh # NotComputed /\ kwh0.kwh # NotComputed

\* samples that share an instant also share the power
TiesAgree(ss) ==
    \A i, j \in 1..Len(ss) :
        parse_time(ss[i].timestamp).t = parse_time(ss[j].timestamp).t
            => ss[i].power_w = ss[j].power_w

\* C1 as stated: whatever the order in which a bag of samples with parseable
\* timestamps is passed, equal instants with different powers included, the
\* energy total is the one obtained for the first order.
C1_ReorderInvariant ==
    (Computed /\ AllParse(samples)) => kwh = kwh0.kwh

\* C1 amended: the total does not depend on the order of the input when the
\* samples that share an instant share the power too.
C1_ReorderInvariantTiesAgree ==
    (Computed /\ AllParse(samples) /\ TiesAgree(samples)) => kwh = kwh0.kwh

\* three samples at three instants, passed in another order than at first and
\* not in time order, and integrated again
C1_Reordered ==
    /\ Computed
    /\ Len(samples) = 3
    /\ AllParse(samples)
    /\ samples # kwh0.samples
    /\ samples[1].timestamp.secs > samples[2].timestamp.secs
    /\ samples[2].timestamp.secs > samples[3].timestamp.secs
    /\ samples[1].power_w # samples[3].power_w
    /\ kwh = kwh0.kwh

\* The integral written from its definition, for the parseable samples taken
\* in time order (samples at one instant in input order).
RefPoints == ParsePoints(samples)

\* point a comes before point b: earlier, or at the same instant and earlier
\* in the input
RefBefore(pts, a, b) ==
    \/ pts[a].t < pts[b].t
    \/ pts[a].t = pts[b].t /\ a < b

\* the i-th point in time order is the one with i - 1 points before it
RefSorted(pts) ==
    LET n == Len(pts)
    IN  [ i \in 1..n |->
            pts[CHOOSE k \in 1..n :
                    Cardinality({ j \in 1..n : RefBefore(pts, j, k) }) = i - 1] ]

RefGaps(srt) == [ i \in 1..(Len(srt) - 1) |-> srt[i + 1].t - srt[i].t ]

RECURSIVE RefTrapezoids2(_, _)
\* twice the sum, over the first k consecutive pairs, of (p0 + p1)/2 * gap
RefTrapezoids2(srt, k) ==
    IF k = 0 THEN 0
    ELSE RefTrapezoids2(srt, k - 1)
         + (srt[k].p + srt[k + 1].p) * (srt[k + 1].t - srt[k].t)

RefPositive(gaps) == { i \in DOMAIN gaps : gaps[i] > 0 }

\* the gap with at most k positive gaps below it and more than k not above it
RefRanked(gaps, k) ==
    LET pos == RefPositive(gaps)
    IN  gaps[CHOOSE i \in pos :
                /\ Cardinality({ j \in pos : gaps[j] < gaps[i] }) <= k
                /\ Cardinality({ j \in pos : gaps[j] <= gaps[i] }) > k]

\* twice the median gap: the upper middle one / the statistical median
RefUpperMedian2(gaps) ==
    LET c == Cardinality(RefPositive(gaps))
    IN  IF c = 0 THEN 2 * SingleSampleSecs ELSE 2 * RefRanked(gaps, c \div 2)

RefStatisticalMedian2(gaps) ==
    LET c == Cardinality(RefPositive(gaps))
    IN  IF c = 0 THEN 2 * SingleSampleSecs
        ELSE RefRanked(gaps, (c - 1) \div 2) + RefRanked(gaps, c \div 2)

RefKwh(srt, median2) ==
    ToMicroKwh(RefTrapezoids2(srt, Len(srt) - 1) + srt[Len(srt)].p * median2)

OneHourAt1000W ==
    << [timestamp |-> Timestamp("T", 0), power_w |-> 1000],
       [timestamp |-> Timestamp("T", Hour), power_w |-> 1000] >>

-----------------------------------------------------------------------------
(* Properties of the store side (under Spec) *)

TimeOf(e) == parse_time(e.timestamp).t

RECURSIVE IsSubsequence(_, _)
\* sub is seq with some elements left out, the others in their order
IsSubsequence(sub, seq) ==
    IF sub = << >> THEN TRUE
    ELSE IF seq = << >> THEN FALSE
    ELSE IF Head(sub) = Head(seq) THEN IsSubsequence(Tail(sub), Tail(seq))
    ELSE IsSubsequence(sub, Tail(seq))

Stored == dataFile.entries

\* C2: after a successful save_energy_data whose filter ran at time t (cutoff
\* = t - 30 days), data.json holds the new entry if its timestamp is after
\* the cutoff and not if it is before; no stored sample is at or before the
\* cutoff; what is stored is the earlier content plus the entry with samples
\* left out, the rest in their order.
C2_AppendThenReadBack ==
    lastAppend.status = "ok" =>
        /\ dataFile.valid
        /\ TimeOf(lastAppend.entry) > lastAppend.cutoff
              => (Stored # << >> /\ Stored[Len(Stored)] = lastAppend.entry)
        /\ TimeOf(lastAppend.entry) < lastAppend.cutoff
              => (\A i \in 1..Len(Stored) : Stored[i] # lastAppend.entry)
        /\ \A i \in 1..Len(Stored) :
              /\ parse_time(Stored[i].timestamp).ok
              /\ ~(TimeOf(Stored[i]) <= lastAppend.cutoff)
        /\ IsSubsequence(Stored, Append(lastAppend.before.entries, lastAppend.entry))

\* a save has succeeded that kept its entry and dropped the sample of an
\* earlier run, by then out of the window
C2_AppendedAndPruned ==
    /\ lastAppend.status = "ok"
    /\ lastAppend.before.entries # << >>
    /\ Stored = << lastAppend.entry >>
    /\ TimeOf(lastAppend.before.entries[1]) <= lastAppend.cutoff

HasRead(h) == hpc[h] \in {"set_lock", "set_read", "done"} /\ hreq[h].op # "set_rate"
                 /\ ~(hreq[h].op = "historical_data" /\ hreq[h].arg = NoDate)

LockDiscipline ==
    /\ (ppc \in {"sv_read", "sv_open", "sv_dump"}) <=> (file_lock = "poll")
    /\ \A h \in Handlers :
          (hpc[h] \in {"data_read", "set_read", "wr_open", "wr_dump"}) <=> (file_lock = h)

\* C5: every access to the files is made holding file_lock, by one thread at
\* a time, and every read finds the whole collection of before or after a
\* write, never the file as open(.., 'w') cut it.
C5_ReadsSeeWholeFile ==
    /\ LockDiscipline
    /\ \A h \in Handlers : HasRead(h) => hdata[h].valid
    /\ lastAppend.cause # "read"

\* C6 as stated: no sample a route read at time t is older than t - 30 days.
C6_ReadsWithinWindow ==
    \A h \in Handlers :
        (HasRead(h) /\ hdata[h].valid) =>
            \A i \in 1..Len(hdata[h].entries) :
                parse_time(hdata[h].entries[i].timestamp).ok
                    => ~(TimeOf(hdata[h].entries[i]) < hdata[h].at - Retention)

\* C6 amended: no sample a route reads is at or before tA - 30 days, tA being
\* the time of the latest save_energy_data that had succeeded by then; how
\* long ago that was does not enter.
C6_ReadsWithinWindowOfLastSave ==
    \A h \in Handlers :
        (HasRead(h) /\ hdata[h].valid /\ hdata[h].since.some) =>
            \A i \in 1..Len(hdata[h].entries) :
                /\ parse_time(hdata[h].entries[i].timestamp).ok
                /\ TimeOf(hdata[h].entries[i]) > hdata[h].since.cutoff

\* a route has read, after a successful save, a sample by then older than 30
\* days
C6_StaleSampleRead ==
    \E h \in Handlers :
        /\ HasRead(h)
        /\ hdata[h].valid
        /\ hdata[h].since.some
        /\ \E i \in 1..Len(hdata[h].entries) :
              TimeOf(hdata[h].entries[i]) < hdata[h].at - Retention

\* C7: a save_energy_data that fails on reading or writing data.json leaves
\* the poll thread running with file_lock released and data.json holding what
\* it held before the call.
C7_FailedSaveHarmless ==
    lastAppend.status = "failed" =>
        /\ ppc \in {"sleep", "poll"}
        /\ file_lock # "poll"
        /\ dataFile = lastAppend.before

\* C10: with a sample in data.json whose timestamp does not parse, a save of
\* a valid sample still succeeds (the malformed sample staying stored), and
\* /historical_data and /daily_summary still answer for the other samples.
C10_MalformedRecovered ==
    /\ lastAppend.status = "failed" => lastAppend.cause # "parse"
    /\ (lastAppend.status = "ok" /\ HasMalformed(lastAppend.before.entries))
          => HasMalformed(Stored)
    /\ \A h \in Handlers :
          (/\ hpc[h] = "done"
           /\ hreq[h].op \in {"historical_data", "daily_summary"}
           /\ hreq[h].arg # NoDate
           /\ hdata[h].valid
           /\ HasMalformed(hdata[h].entries))
              => hres[h].code # 500


-----------------------------------------------------------------------------
(* Properties of the rate side (under SpecRate) *)

\* C4: a /set_rate call with a negative rate is answered 400 in the step that
\* validates it: it never goes on to read_settings or write_settings,
\* settings.json is as before the call and stands for the same rate.
C4_NegativeRateRejected ==
    [][ \A h \in Handlers :
          (/\ hpc[h] = "idle"
           /\ hreq'[h].op = "set_rate"
           /\ hreq'[h].numeric
           /\ hreq'[h].arg < 0)
              => /\ hpc'[h] = "done"
                 /\ hres'[h].code = 400
                 /\ settingsFile' = settingsFile
                 /\ read_settings(settingsFile') = read_settings(settingsFile) ]_vars

\* a negative rate has been rejected while settings.json holds a rate set
\* earlier
C4_NegativeRejectedAfterSet ==
    \E h \in Handlers :
        /\ hpc[h] = "done"
        /\ hreq[h].op = "set_rate"
        /\ hreq[h].arg < 0
        /\ hres[h].code = 400
        /\ settingsFile = SettingsOK(12)

\* a query that got as far as its rate lookup and answered
Answered(h) ==
    /\ hpc[h] = "done"
    /\ hreq[h].op \in {"live_data", "historical_data", "daily_summary"}
    /\ hres[h].code = 200
    /\ hdata[h].valid

UsesRate(h, r) ==
    /\ hres[h].rate = r
    /\ hres[h].cost = CostOf(hres[h].total_kwh, r)
    /\ \A i \in 1..Len(hres[h].summary) :
          hres[h].summary[i].cost = CostOf(hres[h].summary[i].total_kwh, r)

\* C8 as stated: a query that starts after set_rate(r) succeeded, no other
\* set_rate having begun by then, uses r.
C8_RateOfLastSetRate ==
    \A h \in Handlers :
        (Answered(h) /\ hreq[h].expect # NoRate) => UsesRate(h, hreq[h].expect)

\* C8 amended: such a query uses r if no other set_rate passes validation
\* before the query looks the rate up (which it does after reading data.json);
\* and any query uses a rate settings.json has stood for at some moment since
\* the query started, never one overwritten before that.
C8_RateAtLookup ==
    \A h \in Handlers :
        Answered(h) =>
            /\ (hreq[h].expect # NoRate /\ ~hreq[h].disturbed)
                  => UsesRate(h, hreq[h].expect)
            /\ hres[h].rate \in hreq[h].seen
            /\ UsesRate(h, hres[h].rate)

\* /historical_data has answered with a cost at rate 12, set by a /set_rate
\* that succeeded before the query started, over a sample the poll thread saved
C8_QueryAfterSetRate ==
    \E h \in Handlers :
        /\ Answered(h)
        /\ hreq[h].op = "historical_data"
        /\ hreq[h].expect = 12
        /\ ~hreq[h].disturbed
        /\ lastAppend.status = "ok"
        /\ hres[h].total_kwh > 0
        /\ hres[h].cost = CostOf(hres[h].total_kwh, 12)

=============================================================================
